---- MODULE Spec2Model ----
(***************************************************************************)
(* Model of jsonstream: an incremental JSON decoder.  A Tokeniser keeps a  *)
(* text buffer with a write cursor and a read cursor and lexes one token   *)
(* per call, raising Pending when the text stops short and more may come   *)
(* and EndOfStream when it stops short for good.  A Decoder drives the     *)
(* Tokeniser in a loop, keeps the path into the open containers and the    *)
(* set of token categories it expects, and hands every leaf value to a     *)
(* handler.                                                                *)
(*                                                                         *)
(* Text is a sequence of one-character strings; cursors are offsets, so    *)
(* the character under cursor p of text d is d[p + 1].                     *)
(***************************************************************************)
EXTENDS Integers, Sequences, FiniteSets, TLC

\* ------------------------------------------------------------------------
\* Characters
\* ------------------------------------------------------------------------

\* string.whitespace; the vertical tab is written <VT>
Whitespace == {" ", "\t", "\n", "\r", "<VT>", "\f"}

\* the characters _read_digit accepts
Digits == {"0", "1", "2", "3", "4", "5", "6", "7", "8", "9"}

\* the characters Tokeniser.read returns as one-character tokens
Structural == {",", ":", "[", "]", "{", "}"}

\* int(ch) for a decimal digit
DigitValue(ch) ==
  CASE ch = "0" -> 0 [] ch = "1" -> 1 [] ch = "2" -> 2 [] ch = "3" -> 3
    [] ch = "4" -> 4 [] ch = "5" -> 5 [] ch = "6" -> 6 [] ch = "7" -> 7
    [] ch = "8" -> 8 [] ch = "9" -> 9

\* the characters int(ch, 16) accepts
HexDigits == Digits \cup {"a", "b", "c", "d", "e", "f", "A", "B", "C", "D", "E", "F"}

\* int(ch, 16)
HexValue(ch) ==
  CASE ch \in Digits -> DigitValue(ch)
    [] ch \in {"a", "A"} -> 10 [] ch \in {"b", "B"} -> 11
    [] ch \in {"c", "C"} -> 12 [] ch \in {"d", "D"} -> 13
    [] ch \in {"e", "E"} -> 14 [] ch \in {"f", "F"} -> 15

\* _chr(n): the character with code point n; backspace is written <BS> and
\* code points outside the table U+<n>
Chr(n) ==
  CASE n = 8 -> "<BS>" [] n = 9 -> "\t" [] n = 10 -> "\n" [] n = 12 -> "\f"
    [] n = 13 -> "\r" [] n = 32 -> " " [] n = 34 -> "\"" [] n = 47 -> "/"
    [] n = 48 -> "0" [] n = 49 -> "1" [] n = 65 -> "A" [] n = 66 -> "B"
    [] n = 92 -> "\\" [] n = 97 -> "a" [] n = 98 -> "b"
    [] OTHER -> "U+" \o ToString(n)

\* _ESCAPES
EscapeChars == {"\"", "\\", "/", "b", "f", "n", "r", "t"}

\* faulty variant: the character after the backslash is taken as it is
EscapeVerbatim(ch) == ch

Escape(ch) ==
  CASE ch = "\"" -> "\"" [] ch = "\\" -> "\\" [] ch = "/" -> "/"
    [] ch = "b" -> "<BS>" [] ch = "f" -> "\f" [] ch = "n" -> "\n"
    [] ch = "r" -> "\r" [] ch = "t" -> "\t"

\* ------------------------------------------------------------------------
\* Decoded values.  t is the Python type; n the integer (bool: 0 or 1;
\* float: the decimal digits without the point, trailing fractional zeros
\* dropped); e the number of fractional digits of a float; s the text of a
\* string.
\* ------------------------------------------------------------------------

NoneValue == [t |-> "none", n |-> 0, e |-> 0, s |-> <<>>]

BoolValue(b) == [t |-> "bool", n |-> IF b THEN 1 ELSE 0, e |-> 0, s |-> <<>>]

IntValue(n) == [t |-> "int", n |-> n, e |-> 0, s |-> <<>>]

StrValue(s) == [t |-> "str", n |-> 0, e |-> 0, s |-> s]

RECURSIVE FloatValue(_, _)
FloatValue(n, e) ==
  IF e > 0 /\ n % 10 = 0 THEN FloatValue(n \div 10, e - 1)
  ELSE [t |-> "float", n |-> n, e |-> e, s |-> <<>>]

\* isinstance(v, int): bool is a subclass of int
IsInt(v) == v.t \in {"int", "bool"}

\* ------------------------------------------------------------------------
\* Tokeniser.  Every reading operator takes the text d, the read cursor p
\* and the flag w (_writable) and yields an outcome: k is "token" or the
\* exception raised, pos the read cursor the call leaves behind, src the
\* token's source text (for an exception: its argument), value the decoded
\* value.
\* ------------------------------------------------------------------------

Outcome(k, pos, src, value) == [k |-> k, pos |-> pos, src |-> src, value |-> value]

\* what _peek and _read raise when no character is left
NoCharacter(w) == IF w THEN "Pending" ELSE "EndOfStream"

\* faulty variant: Pending raised again without the seek back
RollbackNone(r, pos) == r

\* faulty variant: the seek back goes to the start of the text
RollbackToStart(r, pos) == IF r.k = "Pending" THEN [r EXCEPT !.pos = 0] ELSE r

\* faulty variant: the seek back is made on EndOfStream as well
RollbackOnEnd(r, pos) ==
  IF r.k \in {"Pending", "EndOfStream"} THEN [r EXCEPT !.pos = pos] ELSE r

\* except Pending: self.data.seek(pos); raise Pending()
Rollback(r, pos) == IF r.k = "Pending" THEN [r EXCEPT !.pos = pos] ELSE r

RECURSIVE SkipWhitespace(_, _)
SkipWhitespace(d, p) ==
  IF p < Len(d) /\ d[p + 1] \in Whitespace THEN SkipWhitespace(d, p + 1) ELSE p

\* the loop of _read_literal: lit is what is still expected
RECURSIVE MatchLiteral(_, _, _, _)
MatchLiteral(d, p, w, lit) ==
  IF lit = <<>> THEN Outcome("token", p, <<>>, NoneValue)
  ELSE IF p >= Len(d) THEN Outcome(NoCharacter(w), p, <<>>, NoneValue)
  ELSE IF d[p + 1] # Head(lit) THEN Outcome("UnexpectedCharacter", p + 1, <<d[p + 1]>>, NoneValue)
  ELSE MatchLiteral(d, p + 1, w, Tail(lit))

\* faulty variant: the literal is returned with the cursor back on its first
\* character
LiteralTokenUnread(r, literal, value) ==
  IF r.k = "token" THEN Outcome("token", r.pos - Len(literal), literal, value) ELSE r

\* return literal, the tuple completed by the caller with value
LiteralToken(r, literal, value) ==
  IF r.k = "token" THEN Outcome("token", r.pos, literal, value) ELSE r

ReadLiteral(d, p, w, literal, value) ==
  LiteralToken(Rollback(MatchLiteral(d, p, w, literal), p), literal, value)

ReadDigit(d, p, w) ==
  IF p >= Len(d) THEN Outcome(NoCharacter(w), p, <<>>, NoneValue)
  ELSE IF d[p + 1] \notin Digits THEN Outcome("UnexpectedCharacter", p, <<d[p + 1]>>, NoneValue)
  ELSE Outcome("token", p + 1, <<d[p + 1]>>, NoneValue)

\* while True: src.append(self._read_digit()), left on UnexpectedCharacter
\* or EndOfStream; Pending goes through.  r is what _read_digit yields at p
RECURSIVE ReadDigits(_, _, _, _)
RECURSIVE MoreDigits(_, _, _, _, _)
MoreDigits(d, p, w, src, r) ==
  IF r.k = "token" THEN ReadDigits(d, r.pos, w, src \o r.src)
  ELSE IF r.k = "Pending" THEN Outcome("Pending", p, src, NoneValue)
  ELSE Outcome("token", p, src, NoneValue)

ReadDigits(d, p, w, src) == MoreDigits(d, p, w, src, ReadDigit(d, p, w))

\* the digits of src read as a decimal number, sign and point skipped
RECURSIVE DecimalValue(_, _)
DecimalValue(src, acc) ==
  IF src = <<>> THEN acc
  ELSE IF Head(src) \in Digits THEN DecimalValue(Tail(src), 10 * acc + DigitValue(Head(src)))
  ELSE DecimalValue(Tail(src), acc)

Signed(src, n) == IF src # <<>> /\ Head(src) = "-" THEN 0 - n ELSE n

\* int(src)
ParseInt(src) == IntValue(Signed(src, DecimalValue(src, 0)))

RECURSIVE DigitsAfterPoint(_)
DigitsAfterPoint(src) ==
  IF src = <<>> THEN 0
  ELSE IF Head(src) = "." THEN Len(src) - 1
  ELSE DigitsAfterPoint(Tail(src))

\* faulty variant: the point is lost on the way to float
ParseFloatNoPoint(src) == FloatValue(Signed(src, DecimalValue(src, 0)), 0)

\* float(src)
ParseFloat(src) == FloatValue(Signed(src, DecimalValue(src, 0)), DigitsAfterPoint(src))

\* _read_number from the digits after the point on: frac is what the loop
\* over them yields
FloatToken(p, frac) ==
  IF frac.k = "Pending" THEN Rollback(frac, p)
  ELSE Outcome("token", frac.pos, frac.src, ParseFloat(frac.src))

\* _read_number from the _peek after the integer part on: whole is what the
\* integer part yields, ch the first digit, which an EndOfStream from _peek
\* leaves in ch
FractionalPart(d, p, w, whole, ch) ==
  IF whole.k = "Pending" THEN Rollback(whole, p)
  ELSE IF whole.pos >= Len(d) /\ w THEN Outcome("Pending", p, <<>>, NoneValue)
  ELSE IF (IF whole.pos < Len(d) THEN d[whole.pos + 1] ELSE ch) = "."
    THEN FloatToken(p, ReadDigits(d, whole.pos + 1, w, Append(whole.src, ".")))
  ELSE Outcome("token", whole.pos, whole.src, ParseInt(whole.src))

\* _read_number from the first digit on: first is what _read_digit yields
\* for it
IntegerPart(d, p, w, sign, first) ==
  IF first.k # "token" THEN Rollback(first, p)
  ELSE FractionalPart(d, p, w,
         IF first.src # <<"0">>
         THEN ReadDigits(d, first.pos, w, sign \o first.src)
         ELSE Outcome("token", first.pos, sign \o first.src, NoneValue),
         Head(first.src))

\* _read_number after the check for a sign
SignedNumber(d, p, w, sign) ==
  IntegerPart(d, p, w, sign, ReadDigit(d, p + Len(sign), w))

\* what _read_number yields when the text is taken as ended
EagerNumber(p, w, r) ==
  IF r.k = "EndOfStream" /\ w THEN Outcome("Pending", p, <<>>, NoneValue) ELSE r

\* faulty variant: the digit loops and the _peek after the integer part are
\* left on Pending as on EndOfStream, so the digits read so far are returned
ReadNumberEager(d, p, w) ==
  EagerNumber(p, w, SignedNumber(d, p, FALSE, IF d[p + 1] = "-" THEN <<"-">> ELSE <<>>))

ReadNumber(d, p, w) ==
  SignedNumber(d, p, w, IF d[p + 1] = "-" THEN <<"-">> ELSE <<>>)

\* for i in range(4): n = 16 * n + int(self._read(), 16)
RECURSIVE ReadHex(_, _, _, _, _, _)
ReadHex(d, p, w, i, n, src) ==
  IF i = 0 THEN Outcome("token", p, src, IntValue(n))
  ELSE IF p >= Len(d) THEN Outcome(NoCharacter(w), p, <<>>, NoneValue)
  ELSE IF d[p + 1] \notin HexDigits THEN Outcome("ValueError", p + 1, <<d[p + 1]>>, NoneValue)
  ELSE ReadHex(d, p + 1, w, i - 1, 16 * n + HexValue(d[p + 1]), Append(src, d[p + 1]))

\* the loop of _read_string, after the opening quote; h is what the four
\* hexadecimal digits of a \u escape yield
RECURSIVE ReadStringBody(_, _, _, _, _)
RECURSIVE AfterHex(_, _, _, _)
AfterHex(d, w, value, h) ==
  IF h.k = "token"
  THEN ReadStringBody(d, h.pos, w, h.src, Append(value, Chr(h.value.n)))
  ELSE h

ReadStringBody(d, p, w, src, value) ==
  IF p >= Len(d) THEN Outcome(NoCharacter(w), p, <<>>, NoneValue)
  ELSE IF d[p + 1] = "\\" THEN
    IF p + 1 >= Len(d) THEN Outcome(NoCharacter(w), p + 1, <<>>, NoneValue)
    ELSE IF d[p + 2] \in EscapeChars THEN
      ReadStringBody(d, p + 2, w, src \o <<d[p + 1], d[p + 2]>>, Append(value, Escape(d[p + 2])))
    ELSE IF d[p + 2] = "u" THEN
      AfterHex(d, w, value, ReadHex(d, p + 2, w, 4, 0, src \o <<d[p + 1], d[p + 2]>>))
    ELSE Outcome("UnexpectedCharacter", p + 2, <<d[p + 2]>>, NoneValue)
  ELSE IF d[p + 1] = "\"" THEN Outcome("token", p + 1, Append(src, "\""), StrValue(value))
  ELSE ReadStringBody(d, p + 1, w, Append(src, d[p + 1]), Append(value, d[p + 1]))

\* _read_string after src, value = [self._read_literal('"')], []
StringAfterQuote(d, w, quote) == ReadStringBody(d, quote.pos, w, quote.src, <<>>)

\* faulty variant: no seek back when the string stops short
ReadStringNoSeek(d, p, w) ==
  StringAfterQuote(d, w, ReadLiteral(d, p, w, <<"\"">>, NoneValue))

ReadString(d, p, w) ==
  Rollback(StringAfterQuote(d, w, ReadLiteral(d, p, w, <<"\"">>, NoneValue)), p)

\* the if/elif chain of Tokeniser.read, the cursor on a character
Lex(d, p, w) ==
  IF d[p + 1] \in Structural THEN Outcome("token", p + 1, <<d[p + 1]>>, NoneValue)
  ELSE IF d[p + 1] = "n" THEN ReadLiteral(d, p, w, <<"n", "u", "l", "l">>, NoneValue)
  ELSE IF d[p + 1] = "t" THEN ReadLiteral(d, p, w, <<"t", "r", "u", "e">>, BoolValue(TRUE))
  ELSE IF d[p + 1] = "f" THEN ReadLiteral(d, p, w, <<"f", "a", "l", "s", "e">>, BoolValue(FALSE))
  ELSE IF d[p + 1] = "\"" THEN ReadString(d, p, w)
  ELSE IF d[p + 1] \in Digits \cup {"-"} THEN ReadNumber(d, p, w)
  ELSE Outcome("UnexpectedCharacter", p, <<d[p + 1]>>, NoneValue)

\* what Tokeniser.read leaves behind: from is the cursor the call started
\* at, start the cursor after _skip_whitespace, writable the flag, which an
\* EndOfStream sets
Lexed(r, from, start, w) ==
  [k |-> r.k, pos |-> r.pos, src |-> r.src, value |-> r.value,
   from |-> from, start |-> start,
   writable |-> IF r.k = "EndOfStream" THEN TRUE ELSE w]

\* Tokeniser.read after _skip_whitespace has moved the cursor to start
ReadFrom(d, p, w, start) ==
  Lexed(IF start >= Len(d) THEN Outcome(NoCharacter(w), start, <<>>, NoneValue)
        ELSE Lex(d, start, w),
        p, start, w)

\* Tokeniser.read
TokeniserRead(d, p, w) == ReadFrom(d, p, w, SkipWhitespace(d, p))

\* ------------------------------------------------------------------------
\* Decoder.  The handlers take and yield a decoder state: the path, the set
\* of expected token categories, the handler calls made so far and the
\* exception raised ("" for none).
\* ------------------------------------------------------------------------

VALUE == 1
ARRAY_OPENER == 2
ARRAY_CLOSER == 4
OBJECT_OPENER == 8
OBJECT_CLOSER == 16
COMMA == 32
COLON == 64

\* expecting is kept as the set of the flags or-ed into self.expecting
Decoding(path, expecting, calls) ==
  [path |-> path, expecting |-> expecting, calls |-> calls, raised |-> ""]

Raise(st, exception) == [st EXCEPT !.raised = exception]

\* faulty variant: | for &, which never raises
AssertExpectingOr(expecting, token) == TRUE

\* self.expecting & token
AssertExpecting(expecting, token) == token \in expecting

Top(path) == path[Len(path)]

SetTop(path, v) == [path EXCEPT ![Len(path)] = v]

\* self.path[-1] += 1
Increment(v) == IntValue(v.n + 1)

InArray(path) == path # <<>> /\ IsInt(Top(path))

InObject(path) == path # <<>> /\ ~IsInt(Top(path))

HasKey(path) == path # <<>> /\ Top(path) # NoneValue /\ ~IsInt(Top(path))

\* handler(self.path, value): the call is recorded with the path as it is
\* at the call
Callback(calls, path, value) == Append(calls, [path |-> path, value |-> value])

\* faulty variant: the handler is called for an object key as well
HandleValueReportsKey(st, src, value) ==
  IF ~AssertExpecting(st.expecting, VALUE) THEN Raise(st, "UnexpectedCharacter")
  ELSE IF InArray(st.path) THEN
    Decoding(SetTop(st.path, Increment(Top(st.path))), {COMMA, ARRAY_CLOSER},
             Callback(st.calls, st.path, value))
  ELSE IF InObject(st.path) THEN
    IF HasKey(st.path) THEN
      Decoding(SetTop(st.path, NoneValue), {COMMA, OBJECT_CLOSER},
               Callback(st.calls, st.path, value))
    ELSE Decoding(SetTop(st.path, value), {COLON}, Callback(st.calls, st.path, value))
  ELSE Decoding(st.path, st.expecting, Callback(st.calls, st.path, value))

HandleValue(st, src, value) ==
  IF ~AssertExpecting(st.expecting, VALUE) THEN Raise(st, "UnexpectedCharacter")
  ELSE IF InArray(st.path) THEN
    Decoding(SetTop(st.path, Increment(Top(st.path))), {COMMA, ARRAY_CLOSER},
             Callback(st.calls, st.path, value))
  ELSE IF InObject(st.path) THEN
    IF HasKey(st.path) THEN
      Decoding(SetTop(st.path, NoneValue), {COMMA, OBJECT_CLOSER},
               Callback(st.calls, st.path, value))
    ELSE Decoding(SetTop(st.path, value), {COLON}, st.calls)
  ELSE Decoding(st.path, st.expecting, Callback(st.calls, st.path, value))

HandleComma(st, src) ==
  IF ~AssertExpecting(st.expecting, COMMA) THEN Raise(st, "UnexpectedCharacter")
  ELSE Decoding(st.path, {VALUE, ARRAY_OPENER, OBJECT_OPENER}, st.calls)

HandleColon(st, src) ==
  IF ~AssertExpecting(st.expecting, COLON) THEN Raise(st, "UnexpectedCharacter")
  ELSE Decoding(st.path, {VALUE, ARRAY_OPENER, OBJECT_OPENER}, st.calls)

OpenArray(st, src) ==
  IF ~AssertExpecting(st.expecting, ARRAY_OPENER) THEN Raise(st, "UnexpectedCharacter")
  ELSE Decoding(Append(st.path, IntValue(0)),
                {VALUE, ARRAY_OPENER, ARRAY_CLOSER, OBJECT_OPENER}, st.calls)

\* faulty variant: expecting is left as it is when the outermost container
\* is closed
PopLeavesExpecting(st) ==
  LET path == SubSeq(st.path, 1, Len(st.path) - 1)
  IN  IF st.path = <<>> THEN Raise(st, "IndexError")
      ELSE IF InArray(path) THEN
        Decoding(SetTop(path, Increment(Top(path))), {COMMA, ARRAY_CLOSER}, st.calls)
      ELSE IF InObject(path) THEN
        Decoding(SetTop(path, NoneValue), {COMMA, OBJECT_CLOSER}, st.calls)
      ELSE Decoding(path, st.expecting, st.calls)

\* faulty variant: "]" is still expected after the outermost container is
\* closed
PopExpectsCloser(st) ==
  LET path == SubSeq(st.path, 1, Len(st.path) - 1)
  IN  IF st.path = <<>> THEN Raise(st, "IndexError")
      ELSE IF InArray(path) THEN
        Decoding(SetTop(path, Increment(Top(path))), {COMMA, ARRAY_CLOSER}, st.calls)
      ELSE IF InObject(path) THEN
        Decoding(SetTop(path, NoneValue), {COMMA, OBJECT_CLOSER}, st.calls)
      ELSE Decoding(path, {VALUE, ARRAY_OPENER, ARRAY_CLOSER, OBJECT_OPENER}, st.calls)

\* self.path.pop() and what follows it in _close_array and _close_object
Pop(st) ==
  LET path == SubSeq(st.path, 1, Len(st.path) - 1)
  IN  IF st.path = <<>> THEN Raise(st, "IndexError")
      ELSE IF InArray(path) THEN
        Decoding(SetTop(path, Increment(Top(path))), {COMMA, ARRAY_CLOSER}, st.calls)
      ELSE IF InObject(path) THEN
        Decoding(SetTop(path, NoneValue), {COMMA, OBJECT_CLOSER}, st.calls)
      ELSE Decoding(path, {VALUE, ARRAY_OPENER, OBJECT_OPENER}, st.calls)

CloseArray(st, src) ==
  IF ~AssertExpecting(st.expecting, ARRAY_CLOSER) THEN Raise(st, "UnexpectedCharacter")
  ELSE Pop(st)

OpenObject(st, src) ==
  IF ~AssertExpecting(st.expecting, OBJECT_OPENER) THEN Raise(st, "UnexpectedCharacter")
  ELSE Decoding(Append(st.path, NoneValue), {VALUE, OBJECT_CLOSER}, st.calls)

CloseObject(st, src) ==
  IF ~AssertExpecting(st.expecting, OBJECT_CLOSER) THEN Raise(st, "UnexpectedCharacter")
  ELSE Pop(st)

\* the category Decoder.read gives a token by its source text
Category(src) ==
  CASE src = <<",">> -> COMMA
    [] src = <<":">> -> COLON
    [] src = <<"[">> -> ARRAY_OPENER
    [] src = <<"]">> -> ARRAY_CLOSER
    [] src = <<"{">> -> OBJECT_OPENER
    [] src = <<"}">> -> OBJECT_CLOSER
    [] OTHER -> VALUE

\* the if/elif chain of Decoder.read
Dispatch(st, src, value) ==
  LET category == Category(src)
  IN  CASE category = COMMA -> HandleComma(st, src)
        [] category = COLON -> HandleColon(st, src)
        [] category = ARRAY_OPENER -> OpenArray(st, src)
        [] category = ARRAY_CLOSER -> CloseArray(st, src)
        [] category = OBJECT_OPENER -> OpenObject(st, src)
        [] category = OBJECT_CLOSER -> CloseObject(st, src)
        [] OTHER -> HandleValue(st, src, value)

\* what an operation of the session hands back to its caller: k is "None",
\* "True", "False" or the exception raised ("running" while Decoder.read is
\* still in its loop), arg the exception's argument
Result(k, arg) == [k |-> k, arg |-> arg]

Errors == {"UnexpectedCharacter", "ValueError", "IndexError"}

\* what an iteration of the loop of Decoder.read comes to: t is what
\* Tokeniser.read yields, r the decoder state the handler of the token leaves
Iteration(t, st, r) ==
  [tok |-> t,
   st  |-> IF t.k = "token" THEN r ELSE st,
   ret |-> CASE t.k = "Pending" -> Result("True", <<>>)
             [] t.k = "EndOfStream" -> Result("False", <<>>)
             [] t.k \in Errors -> Result(t.k, t.src)
             [] t.k = "token" /\ r.raised = "IndexError" -> Result(r.raised, <<>>)
             [] t.k = "token" /\ r.raised # "" -> Result(r.raised, t.src)
             [] OTHER -> Result("running", <<>>)]

Handle(t, st) == Iteration(t, st, Dispatch(st, t.src, t.value))

\* one iteration of the loop of Decoder.read
Step(d, p, w, st) == Handle(TokeniserRead(d, p, w), st)

\* Decoder.read from call to return; s is its first iteration
RECURSIVE ReadAll(_, _, _, _)
RECURSIVE Loop(_, _)
Loop(d, s) ==
  IF s.ret.k = "running" THEN ReadAll(d, s.tok.pos, s.tok.writable, s.st)
  ELSE [pos |-> s.tok.pos, writable |-> s.tok.writable, st |-> s.st, ret |-> s.ret]

ReadAll(d, p, w, st) == Loop(d, Step(d, p, w, st))

\* Decoder.__init__
InitialExpecting == {VALUE, ARRAY_OPENER, OBJECT_OPENER}

\* ------------------------------------------------------------------------
\* The texts the chunk source delivers
\* ------------------------------------------------------------------------

\* [1,[2,3],4]
DocArray == <<"[", "1", ",", "[", "2", ",", "3", "]", ",", "4", "]">>

\* {"a":1,"b":{"c":2}}
DocObject == <<"{", "\"", "a", "\"", ":", "1", ",", "\"", "b", "\"", ":", "{", "\"", "c", "\"", ":", "2", "}", "}">>

\* "\u0041\n"
DocString == <<"\"", "\\", "u", "0", "0", "4", "1", "\\", "n", "\"">>

\* "a\"\\\/\b\f\n\r\t"
DocEscapes ==
  <<"\"", "a", "\\", "\"", "\\", "\\", "\\", "/", "\\", "b", "\\", "f",
    "\\", "n", "\\", "r", "\\", "t", "\"">>

\* 42
DocNumber == <<"4", "2">>

\* [-0,42.5]
DocNumbers == <<"[", "-", "0", ",", "4", "2", ".", "5", "]">>

\* [-12.50]
DocNegative == <<"[", "-", "1", "2", ".", "5", "0", "]">>

\* [true, null ,false]
DocLiterals == <<"[", "t", "r", "u", "e", ",", " ", "n", "u", "l", "l", " ", ",", "f", "a", "l", "s", "e", "]">>

\* [[],{}]
DocEmpty == <<"[", "[", "]", ",", "{", "}", "]">>

\* {"a":}
DocMissingValue == <<"{", "\"", "a", "\"", ":", "}">>

\* ,1
DocLeadingComma == <<",", "1">>

\* nx1
DocBadLiteral == <<"n", "x", "1">>

\* [1 2
DocMissingComma == <<"[", "1", " ", "2">>

\* {7:1]
DocNumberKey == <<"{", "7", ":", "1", "]">>

\* {true:1]
DocBoolKey == <<"{", "t", "r", "u", "e", ":", "1", "]">>

\* {null:1:2}
DocNullKey == <<"{", "n", "u", "l", "l", ":", "1", ":", "2", "}">>

\* -x
DocBadSign == <<"-", "x">>

\* [1.]
DocBarePoint == <<"[", "1", ".", "]">>

\* 007
DocLeadingZero == <<"0", "0", "7">>

\* "\q"1
DocBadEscape == <<"\"", "\\", "q", "\"", "1">>

\* "\u00zz"
DocBadHex == <<"\"", "\\", "u", "0", "0", "z", "z", "\"">>

\* {"a":1,[2]}
DocOpenAfterComma == <<"{", "\"", "a", "\"", ":", "1", ",", "[", "2", "]", "}">>

\* 1 2
DocTwoValues == <<"1", " ", "2">>

ValidDocs ==
  {DocArray, DocObject, DocString, DocEscapes, DocNumber, DocNumbers, DocNegative, DocLiterals,
   DocEmpty}

InvalidDocs ==
  {DocMissingValue, DocLeadingComma, DocBadLiteral, DocMissingComma, DocNumberKey,
   DocBoolKey, DocNullKey, DocBadSign, DocBarePoint, DocLeadingZero, DocBadEscape,
   DocBadHex, DocOpenAfterComma, DocTwoValues}

\* every text of at most MaxLen characters over Alphabet
MaxLen == 3

Alphabet == {"[", "]", "{", "}", ",", ":", "1", " "}

ShortTexts == UNION {[1..n -> Alphabet] : n \in 0..MaxLen}

Docs == ValidDocs \cup InvalidDocs \cup ShortTexts

\* ------------------------------------------------------------------------
\* The session
\* ------------------------------------------------------------------------

VARIABLES
  doc,        \* the text the chunk source delivers, piece by piece
  data,       \* Tokeniser.data: the text written so far
  write_pos,  \* Tokeniser._write_pos
  read_pos,   \* Tokeniser.data.tell()
  writable,   \* Tokeniser._writable
  path,       \* Decoder.path
  expecting,  \* Decoder.expecting
  calls,      \* the calls of the handler, in order
  pc,         \* "idle", or "loop" while Decoder.read is in its loop
  op,         \* the operation called last: "init", "write", "end", "read"
  ret,        \* what that operation handed back
  tok,        \* the outcome of the last Tokeniser.read
  ended,      \* "no" before the first end(); then "whole" if it came when
              \* the whole text was written, else "early"
  exhausted,  \* some Decoder.read has returned False
  failed,     \* some Decoder.read has raised an error
  phase,      \* where the caller stands in write, read, ..., end, read
  split,      \* some Decoder.read has returned True with a token begun
  pre,        \* the session as the last operation, if a Decoder.read, found it
  openers,    \* the "[" and "{" that opened the containers now open, the
              \* innermost last
  opened,     \* how many "[" and "{" the decoder has accepted
  closed,     \* how many "]" and "}" the decoder has accepted
  last        \* the last two tokens the decoder has accepted

vars == <<doc, data, write_pos, read_pos, writable, path, expecting, calls,
          pc, op, ret, tok, ended, exhausted, failed, phase, split, pre,
          openers, opened, closed, last>>

NoToken ==
  [k |-> "none", pos |-> 0, src |-> <<>>, value |-> NoneValue,
   from |-> 0, start |-> 0, writable |-> TRUE]

\* again: the operation before this Decoder.read was a Decoder.read that
\* returned True
Snapshot ==
  [path |-> path, expecting |-> expecting, read_pos |-> read_pos,
   calls |-> Len(calls), again |-> (op = "read" /\ ret.k = "True"),
   exhausted |-> exhausted, failed |-> failed]

NoSnapshot ==
  [path |-> <<>>, expecting |-> {}, read_pos |-> 0,
   calls |-> 0, again |-> FALSE, exhausted |-> FALSE, failed |-> FALSE]

Init ==
  /\ doc \in Docs
  /\ data = <<>>
  /\ write_pos = 0
  /\ read_pos = 0
  /\ writable = TRUE
  /\ path = <<>>
  /\ expecting = InitialExpecting
  /\ calls = <<>>
  /\ pc = "idle"
  /\ op = "init"
  /\ ret = Result("None", <<>>)
  /\ tok = NoToken
  /\ ended = "no"
  /\ exhausted = FALSE
  /\ failed = FALSE
  /\ phase = "write"
  /\ split = FALSE
  /\ pre = NoSnapshot
  /\ openers = <<>>
  /\ opened = 0
  /\ closed = 0
  /\ last = <<>>

\* _assert_writable
AssertWritable(w) == w

\* Tokeniser.write: the text and the write cursor after writing chunk
TokeniserWrite(d, wp, chunk) ==
  [data |-> SubSeq(d, 1, wp) \o chunk \o SubSeq(d, wp + Len(chunk) + 1, Len(d)),
   write_pos |-> wp + Len(chunk)]

\* faulty variant: the chunk is written before _assert_writable is asked
WriteBeforeAssert(k) ==
  LET chunk == SubSeq(doc, write_pos + 1, write_pos + k)
      w     == TokeniserWrite(data, write_pos, chunk)
  IN  /\ pc = "idle"
      /\ op' = "write"
      /\ data' = w.data
      /\ write_pos' = w.write_pos
      /\ ret' = IF AssertWritable(writable) THEN Result("None", <<>>)
                ELSE Result("IOError", <<>>)
      /\ phase' = IF AssertWritable(writable) /\ phase = "write" THEN "read" ELSE "off"
      /\ pre' = NoSnapshot
      /\ UNCHANGED <<doc, read_pos, writable, path, expecting, calls, pc, tok,
                     ended, exhausted, failed, split, openers, opened, closed, last>>

\* Decoder.write(chunk), chunk the next k characters of the source, k > 0
Write(k) ==
  LET chunk == SubSeq(doc, write_pos + 1, write_pos + k)
      w     == TokeniserWrite(data, write_pos, chunk)
  IN  /\ pc = "idle"
      /\ op' = "write"
      /\ IF AssertWritable(writable)
         THEN /\ data' = w.data
              /\ write_pos' = w.write_pos
              /\ ret' = Result("None", <<>>)
         ELSE /\ UNCHANGED <<data, write_pos>>
              /\ ret' = Result("IOError", <<>>)
      /\ phase' = IF AssertWritable(writable) /\ phase = "write" THEN "read" ELSE "off"
      /\ pre' = NoSnapshot
      /\ UNCHANGED <<doc, read_pos, writable, path, expecting, calls, pc, tok,
                     ended, exhausted, failed, split, openers, opened, closed, last>>

\* Decoder.end()
End ==
  /\ pc = "idle"
  /\ op' = "end"
  /\ writable' = FALSE
  /\ ret' = Result("None", <<>>)
  /\ ended' = IF ended # "no" THEN ended
               ELSE IF write_pos = Len(doc) THEN "whole" ELSE "early"
  /\ phase' = IF phase = "write" /\ write_pos = Len(doc) THEN "endread" ELSE "off"
  /\ pre' = NoSnapshot
  /\ UNCHANGED <<doc, data, write_pos, read_pos, path, expecting, calls, pc, tok,
                 exhausted, failed, split, openers, opened, closed, last>>

\* the caller calls Decoder.read(handler)
ReadCall ==
  /\ pc = "idle"
  /\ pc' = "loop"
  /\ op' = "read"
  /\ ret' = Result("running", <<>>)
  /\ pre' = Snapshot
  /\ phase' = IF phase \in {"read", "endread"} THEN phase ELSE "off"
  /\ UNCHANGED <<doc, data, write_pos, read_pos, writable, path, expecting, calls,
                 tok, ended, exhausted, failed, split, openers, opened, closed, last>>

Openers == {ARRAY_OPENER, OBJECT_OPENER}

Closers == {ARRAY_CLOSER, OBJECT_CLOSER}

\* the openers of the open containers after a token src has been accepted
Nesting(os, src) ==
  IF Category(src) \in Openers THEN Append(os, src[1])
  ELSE IF Category(src) \in Closers /\ os # <<>> THEN SubSeq(os, 1, Len(os) - 1)
  ELSE os

\* the last two accepted tokens after t has been accepted
Accept(ts, t) ==
  (IF ts = <<>> THEN <<>> ELSE <<ts[Len(ts)]>>) \o <<[src |-> t.src, value |-> t.value]>>

\* the session after an iteration s of the loop of Decoder.read; the call
\* returns or raises when the iteration does.  The decoder has accepted the
\* token of the iteration when the loop goes on
Iterate(s) ==
  /\ tok' = s.tok
  /\ read_pos' = s.tok.pos
  /\ writable' = s.tok.writable
  /\ path' = s.st.path
  /\ expecting' = s.st.expecting
  /\ calls' = s.st.calls
  /\ ret' = s.ret
  /\ pc' = IF s.ret.k = "running" THEN "loop" ELSE "idle"
  /\ exhausted' = (exhausted \/ s.ret.k = "False")
  /\ failed' = (failed \/ s.ret.k \in Errors)
  /\ split' = (split \/ (s.ret.k = "True" /\ s.tok.pos < Len(data)))
  /\ phase' = IF s.ret.k = "running" THEN phase
              ELSE IF phase = "read" THEN "write"
              ELSE IF phase = "endread" THEN "done"
              ELSE "off"
  /\ openers' = IF s.ret.k = "running" THEN Nesting(openers, s.tok.src) ELSE openers
  /\ opened' = IF s.ret.k = "running" /\ Category(s.tok.src) \in Openers
               THEN opened + 1 ELSE opened
  /\ closed' = IF s.ret.k = "running" /\ Category(s.tok.src) \in Closers
               THEN closed + 1 ELSE closed
  /\ last' = IF s.ret.k = "running" THEN Accept(last, s.tok) ELSE last
  /\ UNCHANGED <<doc, data, write_pos, op, ended, pre>>

\* one iteration of the loop of Decoder.read
ReadStep ==
  /\ pc = "loop"
  /\ Iterate(Step(data, read_pos, writable, Decoding(path, expecting, calls)))

Next ==
  \/ \E k \in 1..(Len(doc) - write_pos) : Write(k)
  \/ End
  \/ ReadCall
  \/ ReadStep

Spec == Init /\ [][Next]_vars

\* ------------------------------------------------------------------------
\* Properties
\* ------------------------------------------------------------------------

Fresh == Decoding(<<>>, InitialExpecting, <<>>)

\* the handler calls of a read after end(); r is what the read before left
ReadAfterEnd(d, r) ==
  ReadAll(d, r.pos, FALSE, Decoding(r.st.path, r.st.expecting, r.st.calls)).st.calls

\* the handler calls of: write the whole text d, read, end(), read
OneChunk(d) == ReadAfterEnd(d, ReadAll(d, 0, TRUE, Fresh))

\* C1: for a valid document, writing it chunk by chunk with a read after
\* each write and one more read after end() makes the same handler calls, in
\* the same order, as writing it whole, reading, ending and reading again.
C1_ChunkSplitInvariance ==
  (doc \in ValidDocs /\ phase = "done") => calls = OneChunk(doc)

\* a string with two escapes delivered in pieces, some read having stopped
\* inside it, and the run complete
C1_Witness ==
  doc = DocString /\ phase = "done" /\ split /\ Len(calls) = 1

Leaf(p, v) == [path |-> p, value |-> v]

Key(c) == StrValue(<<c>>)

\* the leaves of the valid documents, in document order
Leaves(d) ==
  CASE d = DocArray ->
         <<Leaf(<<IntValue(0)>>, IntValue(1)),
           Leaf(<<IntValue(1), IntValue(0)>>, IntValue(2)),
           Leaf(<<IntValue(1), IntValue(1)>>, IntValue(3)),
           Leaf(<<IntValue(2)>>, IntValue(4))>>
    [] d = DocObject ->
         <<Leaf(<<Key("a")>>, IntValue(1)),
           Leaf(<<Key("b"), Key("c")>>, IntValue(2))>>
    [] d = DocString -> <<Leaf(<<>>, StrValue(<<"A", "\n">>))>>
    [] d = DocEscapes ->
         <<Leaf(<<>>, StrValue(<<"a", "\"", "\\", "/", "<BS>", "\f", "\n", "\r", "\t">>))>>
    [] d = DocNumber -> <<Leaf(<<>>, IntValue(42))>>
    [] d = DocNumbers ->
         <<Leaf(<<IntValue(0)>>, IntValue(0)),
           Leaf(<<IntValue(1)>>, [t |-> "float", n |-> 425, e |-> 1, s |-> <<>>])>>
    [] d = DocNegative ->
         <<Leaf(<<IntValue(0)>>, [t |-> "float", n |-> 0 - 125, e |-> 1, s |-> <<>>])>>
    [] d = DocLiterals ->
         <<Leaf(<<IntValue(0)>>, BoolValue(TRUE)),
           Leaf(<<IntValue(1)>>, NoneValue),
           Leaf(<<IntValue(2)>>, BoolValue(FALSE))>>
    [] d = DocEmpty -> <<>>

\* C2: for a valid document written completely and then ended, the handler
\* is called exactly once per leaf value, in document order, with the path
\* of indexes and keys of the enclosing containers, and for nothing else.
C2_OneCallPerLeaf ==
  (doc \in ValidDocs /\ ended = "whole" /\ exhausted) => calls = Leaves(doc)

C2_Witness ==
  doc = DocObject /\ ended = "whole" /\ exhausted /\ Len(calls) = 2

\* C3: when Tokeniser.read raises Pending, the read cursor is left on the
\* first character of the incomplete token, only whitespace having been
\* consumed, Decoder.read returns True and the handler has not been called
\* for the incomplete token.
C3_SuspensionRollback ==
  [][(pc = "loop" /\ tok'.k = "Pending") =>
       /\ read_pos' = tok'.start
       /\ read_pos' >= read_pos
       /\ \A i \in (read_pos + 1)..read_pos' : data[i] \in Whitespace
       /\ read_pos' < Len(data) => data[read_pos' + 1] \notin Whitespace
       /\ pc' = "idle"
       /\ ret' = Result("True", <<>>)
       /\ calls' = calls]_vars

\* a read has returned True with whitespace skipped and a token begun
C3_Witness ==
  /\ pc = "idle" /\ op = "read" /\ ret.k = "True" /\ tok.k = "Pending"
  /\ tok.from < tok.start /\ read_pos < Len(data)

\* C4: once Decoder.read has returned False, every later Decoder.read
\* returns False and calls the handler no more.
C4_ExhaustionPermanent ==
  (op = "read" /\ pre.exhausted) =>
    (Len(calls) = pre.calls /\ (pc = "idle" => ret.k = "False"))

\* C5: once end() has been called, every write fails with the closed-stream
\* error.
C5_WriteAfterEndFails ==
  (op = "write" /\ ended # "no") => ret.k = "IOError"

\* C6: a token whose category is not expected makes Decoder.read raise
\* UnexpectedCharacter with the token's source text, the handler not called
\* and path and expecting as they were before the token.
C6_UnexpectedTokenRejected ==
  [][(pc = "loop" /\ tok'.k = "token" /\ Category(tok'.src) \notin expecting) =>
       /\ tok'.src = SubSeq(data, tok'.start + 1, tok'.pos)
       /\ ret' = Result("UnexpectedCharacter", tok'.src)
       /\ pc' = "idle"
       /\ UNCHANGED <<path, expecting, calls>>]_vars

\* {"a":} has failed at the }
C6_Witness ==
  /\ doc = DocMissingValue /\ pc = "idle"
  /\ ret = Result("UnexpectedCharacter", <<"}">>)
  /\ path = <<Key("a")>> /\ expecting = InitialExpecting /\ calls = <<>>

\* C7: once Decoder.read has raised an error, no later Decoder.read calls
\* the handler or changes the path.
C7_SyntaxErrorFatal ==
  (op = "read" /\ pre.failed) => (Len(calls) = pre.calls /\ path = pre.path)

\* C8: a Decoder.read that follows a Decoder.read which returned True, with
\* no write or end between them, returns True, calls no handler and leaves
\* path, expecting and the read cursor as they were.
C8_RepeatedReadIdle ==
  (op = "read" /\ pre.again) =>
    /\ Len(calls) = pre.calls
    /\ path = pre.path
    /\ expecting = pre.expecting
    /\ read_pos = pre.read_pos
    /\ pc = "idle" => ret = Result("True", <<>>)

\* the second of two reads has returned, in the middle of a document
C8_Witness ==
  /\ op = "read" /\ pre.again /\ pc = "idle" /\ ret.k = "True"
  /\ Len(calls) > 0 /\ path # <<>> /\ read_pos < Len(data)

\* s is -?(0|[1-9][0-9]*)(.[0-9]+)?
IsNumberText(s) ==
  LET body   == IF s # <<>> /\ Head(s) = "-" THEN Tail(s) ELSE s
      points == {i \in 1..Len(body) : body[i] = "."}
      point  == IF points = {} THEN Len(body) + 1
                ELSE CHOOSE i \in points : \A j \in points : i <= j
      whole  == SubSeq(body, 1, point - 1)
      frac   == SubSeq(body, point + 1, Len(body))
  IN  /\ whole # <<>>
      /\ \A i \in 1..Len(whole) : whole[i] \in Digits
      /\ Len(whole) > 1 => whole[1] # "0"
      /\ \A i \in 1..Len(frac) : frac[i] \in Digits
      /\ points # {} => frac # <<>>

\* the text from the first character that is not whitespace on
Unread == SubSeq(data, SkipWhitespace(data, read_pos) + 1, Len(data))

\* the loop of Decoder.read is about to read a number that ends the text
NumberAtEnd == pc = "loop" /\ IsNumberText(Unread)

\* a value read now is handed to the handler
Reported == VALUE \in expecting /\ ~(InObject(path) /\ ~HasKey(path))

\* while the text may go on, the number is not returned
NumberHeldBack ==
  (NumberAtEnd /\ writable) =>
    /\ tok'.k = "Pending"
    /\ read_pos' = SkipWhitespace(data, read_pos)
    /\ calls' = calls
    /\ pc' = "idle"
    /\ ret' = Result("True", <<>>)

\* after the text has run out, Decoder.read returns False and makes no call
DrainedReturnsFalse ==
  (pc = "loop" /\ ~writable /\ Unread = <<>>) =>
    /\ calls' = calls
    /\ pc' = "idle"
    /\ ret' = Result("False", <<>>)

\* C9 as claimed: a number that ends the text is not emitted while the text
\* may go on; after end() the next read calls the handler once with it, all
\* digits included, and returns False.
C9_NumberAtEndEmitted ==
  [][/\ NumberHeldBack
     /\ (NumberAtEnd /\ ~writable) =>
          /\ tok'.k = "token" /\ tok'.src = Unread /\ read_pos' = Len(data)
          /\ calls' = Append(calls, Leaf(path, tok'.value))
          /\ pc' = "loop"
     /\ DrainedReturnsFalse]_vars

\* C9 amended: ... after end() the next read lexes it as one token with all
\* digits; where a value is expected and the innermost container is not an
\* object awaiting its key, the handler is called once with it and the read
\* returns False.
C9_NumberAtEndEmittedWhereReported ==
  [][/\ NumberHeldBack
     /\ (NumberAtEnd /\ ~writable) =>
          /\ tok'.k = "token" /\ tok'.src = Unread /\ read_pos' = Len(data)
          /\ Reported => /\ calls' = Append(calls, Leaf(path, tok'.value))
                         /\ pc' = "loop"
     /\ DrainedReturnsFalse]_vars

\* 42, end(), read: one call with 42 at the root, and False
C9_Witness ==
  /\ doc = DocNumber /\ pc = "idle" /\ op = "read" /\ ret.k = "False"
  /\ calls = <<Leaf(<<>>, IntValue(42))>> /\ split

\* C10: a write that fails with the closed-stream error leaves the text, both
\* cursors, the writable flag, the path, expecting and the handler calls as
\* they were.
C10_FailedWriteChangesNothing ==
  [][(op' = "write" /\ ret'.k = "IOError") =>
       UNCHANGED <<data, write_pos, read_pos, writable, path, expecting, calls>>]_vars

\* a write has failed in the middle of a document
C10_Witness ==
  /\ op = "write" /\ ret.k = "IOError" /\ data # <<>> /\ write_pos < Len(doc)
  /\ path # <<>>

\* C11: Tokeniser.read never returns a number token whose source text ends in
\* ".": a fractional part is taken only when a digit follows the point.
C11_FractionNeedsDigit ==
  tok.k = "token" => (tok.src = <<>> \/ tok.src[Len(tok.src)] # ".")

\* the token Tokeniser.read returned last is a number
NumberToken == tok.k = "token" /\ tok.src # <<>> /\ tok.src[1] \in Digits \cup {"-"}

RECURSIVE Power10(_)
Power10(k) == IF k = 0 THEN 1 ELSE 10 * Power10(k - 1)

\* the number the decimal digits ds write, the last digit being the units
RECURSIVE Magnitude(_)
Magnitude(ds) ==
  IF ds = <<>> THEN 0
  ELSE DigitValue(ds[Len(ds)]) + 10 * Magnitude(SubSeq(ds, 1, Len(ds) - 1))

IsDigit(c) == c \in Digits

HasPoint(src) == \E i \in 1..Len(src) : src[i] = "."

\* the number of characters of src after its point
Scale(src) ==
  IF HasPoint(src) THEN Len(src) - (CHOOSE i \in 1..Len(src) : src[i] = ".") ELSE 0

\* the number src writes, times Power10(Scale(src))
Scaled(src) ==
  (IF src[1] = "-" THEN 0 - 1 ELSE 1) * Magnitude(SelectSeq(src, IsDigit))

\* C12: the value of a number token is an int exactly when its source text
\* has no ".", a float otherwise, and it is the number the source text
\* writes: 42 gives the int 42, 42.5 the float 42.5 and -0 the int 0.
C12_NumberValue ==
  NumberToken =>
    /\ tok.value.t = (IF HasPoint(tok.src) THEN "float" ELSE "int")
    /\ tok.value.n * Power10(Scale(tok.src)) = Scaled(tok.src) * Power10(tok.value.e)
    /\ tok.src = <<"4", "2">> => tok.value = IntValue(42)
    /\ tok.src = <<"4", "2", ".", "5">> =>
         tok.value = [t |-> "float", n |-> 425, e |-> 1, s |-> <<>>]
    /\ tok.src = <<"-", "0">> => tok.value = IntValue(0)

\* -12.50 has been returned as a float
C12_Witness ==
  /\ NumberToken /\ tok.src = <<"-", "1", "2", ".", "5", "0">>
  /\ tok.value.t = "float" /\ tok.value.n < 0

\* the token Tokeniser.read returned last is a string
StringToken == tok.k = "token" /\ tok.src # <<>> /\ tok.src[1] = "\""

\* the code point of the character an escape denotes
CodePoint(c) ==
  CASE c = "\"" -> 34 [] c = "\\" -> 92 [] c = "/" -> 47 [] c = "b" -> 8
    [] c = "f" -> 12 [] c = "n" -> 10 [] c = "r" -> 13 [] c = "t" -> 9

\* the number the hexadecimal digits h write
RECURSIVE HexNumber(_)
HexNumber(h) ==
  IF h = <<>> THEN 0
  ELSE HexValue(h[Len(h)]) + 16 * HexNumber(SubSeq(h, 1, Len(h) - 1))

\* the text s with every escape replaced by the character it denotes
RECURSIVE Unescaped(_)
Unescaped(s) ==
  IF s = <<>> THEN <<>>
  ELSE IF s[1] # "\\" THEN <<s[1]>> \o Unescaped(Tail(s))
  ELSE IF s[2] = "u"
    THEN <<Chr(HexNumber(SubSeq(s, 3, 6)))>> \o Unescaped(SubSeq(s, 7, Len(s)))
  ELSE <<Chr(CodePoint(s[2]))>> \o Unescaped(SubSeq(s, 3, Len(s)))

\* C13: the raw text of a string token is the source verbatim, quotes and
\* escapes included, and its value is that text without the quotes and with
\* every escape replaced by the character it denotes; "\u0041\n" gives A
\* and a newline.
C13_StringValue ==
  StringToken =>
    /\ tok.src = SubSeq(data, tok.start + 1, tok.pos)
    /\ Len(tok.src) >= 2 /\ tok.src[Len(tok.src)] = "\""
    /\ tok.value = StrValue(Unescaped(SubSeq(tok.src, 2, Len(tok.src) - 1)))
    /\ tok.src = DocString => tok.value = StrValue(<<"A", "\n">>)

\* the string with all eight escapes has been returned
C13_Witness ==
  StringToken /\ tok.src = DocEscapes /\ Len(tok.value.s) = 9

\* the character that opened the innermost open container, "" at the root
Opener == IF openers = <<>> THEN "" ELSE openers[Len(openers)]

\* C14: "]" is expected only while the innermost open container was opened
\* by "[", and "}" only while it was opened by "{".
C14_ClosersMatchOpeners ==
  /\ ARRAY_CLOSER \in expecting => Opener = "["
  /\ OBJECT_CLOSER \in expecting => Opener = "{"

\* C15: no path handed to the handler holds the segment of an object that
\* awaits a key (None).
C15_NoAwaitedKeyInCallbackPath ==
  \A i \in 1..Len(calls) :
    \A j \in 1..Len(calls[i].path) : calls[i].path[j] # NoneValue

\* the loop of Decoder.read accepts a scalar, the token accepted before it
\* being a colon inside an object
ValueAfterColon ==
  /\ pc = "loop" /\ Opener = "{"
  /\ Len(last) = 2 /\ last[2].src = <<":">>
  /\ tok'.k = "token" /\ Category(tok'.src) = VALUE /\ ret'.k = "running"

\* C16: inside an object the scalar accepted right after an accepted colon
\* is handed to the handler with the key read before the colon as the last
\* segment of the path; the segment then awaits a key again and a comma or
\* "}" is expected; so for every scalar as the key.
C16_KeyThenValue ==
  [][ValueAfterColon =>
        /\ path # <<>>
        /\ calls' = Append(calls, Leaf(SetTop(path, last[1].value), tok'.value))
        /\ path' = SetTop(path, NoneValue)
        /\ expecting' = {COMMA, OBJECT_CLOSER}]_vars

\* the loop of Decoder.read gets a token while the path is empty
TokenAtRoot == pc = "loop" /\ path = <<>> /\ tok'.k = "token"

\* C17: whenever the path is empty, a value, "[" and "{" are expected and
\* nothing else: a value at the root leaves it so, closing the outermost
\* container brings it back, a comma, a colon, "]" or "}" at the root is
\* rejected and a further value or container at the root is accepted.
C17_RootExpecting ==
  [][/\ path = <<>> => expecting = InitialExpecting
     /\ path' = <<>> => expecting' = InitialExpecting
     /\ TokenAtRoot =>
          (ret'.k = "running" <=>
             Category(tok'.src) \in {VALUE, ARRAY_OPENER, OBJECT_OPENER})
     /\ (TokenAtRoot /\ Category(tok'.src) = VALUE) =>
          (path' = <<>> /\ calls' = Append(calls, Leaf(<<>>, tok'.value)))]_vars

\* the outermost container has been closed and a value after it handed over
C17_Witness ==
  /\ path = <<>> /\ closed > 0 /\ opened = closed /\ expecting = InitialExpecting
  /\ calls # <<>> /\ calls[Len(calls)].path = <<>> /\ last # <<>>
  /\ Category(last[Len(last)].src) = VALUE

\* C18: the path has one segment for every "[" and "{" accepted and not yet
\* answered by an accepted "]" or "}"; "]" and "}" are expected only while
\* the path is not empty, so self.path.pop() never raises IndexError, and the
\* path is empty exactly when every container opened has been closed.
C18_PathBalance ==
  /\ Len(path) = opened - closed
  /\ expecting \cap Closers # {} => path # <<>>
  /\ ret.k # "IndexError"
  /\ path = <<>> <=> opened = closed

\* containers have been opened one inside the other and all closed again
C18_Witness ==
  /\ path = <<>> /\ opened >= 3 /\ closed = opened
  /\ last # <<>> /\ Category(last[Len(last)].src) \in Closers

\* s is the beginning of lit and not all of it
Begins(s, lit) == s # <<>> /\ Len(s) < Len(lit) /\ s = SubSeq(lit, 1, Len(s))

PartOfLiteral(s) ==
  \/ Begins(s, <<"n", "u", "l", "l">>)
  \/ Begins(s, <<"t", "r", "u", "e">>)
  \/ Begins(s, <<"f", "a", "l", "s", "e">>)

\* s, the text after an opening quote, stops before the closing quote, with
\* every escape in it well formed as far as it goes
RECURSIVE Unclosed(_)
Unclosed(s) ==
  IF s = <<>> THEN TRUE
  ELSE IF s[1] = "\"" THEN FALSE
  ELSE IF s[1] # "\\" THEN Unclosed(Tail(s))
  ELSE IF Len(s) = 1 THEN TRUE
  ELSE IF s[2] \in EscapeChars THEN Unclosed(SubSeq(s, 3, Len(s)))
  ELSE IF s[2] # "u" THEN FALSE
  ELSE /\ \A i \in 3..(IF Len(s) < 6 THEN Len(s) ELSE 6) : s[i] \in HexDigits
       /\ Len(s) >= 6 => Unclosed(SubSeq(s, 7, Len(s)))

PartOfString(s) == s # <<>> /\ s[1] = "\"" /\ Unclosed(Tail(s))

\* the text stops inside a string, inside null, true or false, after a lone
\* "-", or between tokens with a container open
Truncated ==
  \/ PartOfString(Unread)
  \/ PartOfLiteral(Unread)
  \/ Unread = <<"-">>
  \/ Unread = <<>> /\ path # <<>>

\* C19: after end(), a read that comes to a text stopping inside a string,
\* inside null, true or false, after a lone "-" or with containers open
\* returns False and raises nothing, makes no handler call, leaves the path
\* as it is and leaves the read cursor at the end of the text, not back
\* before the part of the token read.
C19_TruncationIsExhaustion ==
  [][(pc = "loop" /\ ~writable /\ Truncated) =>
       /\ tok'.k = "EndOfStream"
       /\ ret' = Result("False", <<>>)
       /\ pc' = "idle"
       /\ calls' = calls
       /\ path' = path
       /\ read_pos' = Len(data)]_vars

\* [tr and end(): the read has returned False inside the array, the cursor
\* past the two letters
C19_Witness ==
  /\ doc = DocLiterals /\ ended = "early" /\ pc = "idle" /\ op = "read"
  /\ ret.k = "False" /\ tok.k = "EndOfStream" /\ path # <<>>
  /\ tok.start < read_pos /\ read_pos = Len(data) /\ data[tok.start + 1] = "t"

\* what ends a call of Decoder.read: True, False or a syntax error
Endings == {"True", "False", "UnexpectedCharacter", "ValueError"}

\* an iteration of the loop of Decoder.read either gets a token of at least
\* one character and goes on, or ends the call; the read cursor does not go
\* back before the start of the token the iteration attempts, and the text
\* stays as it is while the loop runs
Progress ==
  pc = "loop" =>
    /\ \/ tok'.k = "token" /\ ret'.k = "running" /\ pc' = "loop" /\ read_pos' > read_pos
       \/ pc' = "idle" /\ ret'.k \in Endings
    /\ read_pos <= tok'.start
    /\ tok'.start <= read_pos'
    /\ UNCHANGED <<data, write_pos>>

\* C20: every call of Decoder.read comes to an end, as each iteration of its
\* loop either consumes at least one character of the text, which stays as
\* it is during the call, and gets a token, or ends the call with True, False
\* or a syntax error; the read cursor never exceeds the write cursor and
\* never goes back before the start of the token being attempted.
C20_ReadTerminates ==
  [][/\ Progress
     /\ read_pos <= write_pos
     /\ read_pos' <= write_pos']_vars

\* a read has gone through several tokens and returned
C20_Witness ==
  /\ pc = "idle" /\ op = "read" /\ ret.k \in Endings
  /\ pre.read_pos + 3 <= read_pos /\ Len(calls) >= pre.calls + 2

====
